---- MODULE Spec2Model ----
(***************************************************************************)
(* Incremental synchronisation and merge engine of the 0031 database:      *)
(* src/src/sync/{orchestrator,core,merge,ingest,backup,sync_state,         *)
(* file_discovery,transformation,quality}.py and utils/file_operations.py. *)
(*                                                                         *)
(* A record set whose row order has no effect (the baseline, the merged    *)
(* table, a deduplicated batch) is a bag of rows; a record set whose row   *)
(* order the code depends on (a batch file, the combined incoming set) is  *)
(* a sequence of rows.  A key component is a sequence of one-character     *)
(* strings, <<>> standing for null / the empty string.                     *)
(***************************************************************************)
EXTENDS Integers, Sequences, FiniteSets, Bags, TLC

(***************************************************************************)
(* Bounds of the model.                                                    *)
(***************************************************************************)
MaxDate == 2
MaxIncomingRows == 2
MaxBaselineRows == 2
MaxArrivals == 2
MaxRuns == 2

(***************************************************************************)
(* Generic helpers.                                                        *)
(***************************************************************************)
Range(s) == {s[i] : i \in DOMAIN s}

SeqsUpTo(S, n) == UNION {[1..m -> S] : m \in 0..n}

SeqToBag(s) == [r \in Range(s) |-> Cardinality({i \in DOMAIN s : s[i] = r})]

BagsUpTo(S, n) == {SeqToBag(s) : s \in SeqsUpTo(S, n)}

Count(b, P(_)) == BagCardinality([r \in {x \in BagToSet(b) : P(x)} |-> b[r]])

FilterBag(b, P(_)) == [r \in {x \in BagToSet(b) : P(x)} |-> b[r]]

SetMax(S) == CHOOSE m \in S : \A x \in S : x <= m

(***************************************************************************)
(* Strings as sequences of characters.                                     *)
(***************************************************************************)
IsSpace(c) == c = " "

RECURSIVE StripLeft(_)
StripLeft(s) == IF s # <<>> /\ IsSpace(Head(s)) THEN StripLeft(Tail(s)) ELSE s

RECURSIVE StripRight(_)
StripRight(s) ==
    IF s # <<>> /\ IsSpace(s[Len(s)]) THEN StripRight(SubSeq(s, 1, Len(s) - 1)) ELSE s

\* polars str.strip_chars(): leading and trailing whitespace removed
StripChars(s) == StripRight(StripLeft(s))

RECURSIVE ConcatStr(_, _)
\* polars concat_str(parts, separator=sep)
ConcatStr(parts, sep) ==
    IF Len(parts) = 0 THEN <<>>
    ELSE IF Len(parts) = 1 THEN parts[1]
    ELSE parts[1] \o <<sep>> \o ConcatStr(Tail(parts), sep)

(***************************************************************************)
(* Records.  k: the five key columns (PMM Item Number, Corp Acct, Vendor   *)
(* Code, Additional Cost Centre, Additional GL Account); d: Item Update    *)
(* Date, 0 standing for null; v: a non-key column every extract has; e: an *)
(* optional non-key column, null in the rows of a frame without it.        *)
(***************************************************************************)
NullDate == 0
Dates == 0..MaxDate

KeyA == << <<"A">>, <<"1">>, <<"V">>, <<>>, <<>> >>
KeyB == << <<"B">>, <<"1">>, <<"V">>, <<>>, <<>> >>
\* two different composite keys whose '|'-joined strings are equal
KeyX == << <<"A", "|", "1">>, <<"V">>, <<>>, <<>>, <<>> >>
KeyY == << <<"A">>, <<"1", "|", "V">>, <<>>, <<>>, <<>> >>
\* a row of the excluded corporate account
KeyE == << <<"A">>, <<"9">>, <<"V">>, <<>>, <<>> >>
\* KeyA as it stands in a raw extract, before trimming
KeyARaw == << <<"A", " ">>, <<"1">>, <<"V">>, <<" ">>, <<>> >>

\* the null of a non-key column (a value is a sequence of characters)
Null == <<"NULL">>

Vals == {<<"x">>, <<"y">>}

MkRow(k, d, v) == [k |-> k, d |-> d, v |-> v, e |-> Null]

CleanKeys == {KeyA, KeyX, KeyY}
\* incoming rows: every date and value under KeyA, every date under the two
\* keys whose strings collide
CleanRows ==
    {MkRow(KeyA, d, v) : d \in Dates, v \in Vals}
        \cup {MkRow(k, d, <<"x">>) : k \in CleanKeys \ {KeyA}, d \in Dates}
BaselineRows == {MkRow(k, 1, <<"x">>) : k \in CleanKeys}

(***************************************************************************)
(* merge.py                                                                *)
(***************************************************************************)
UniqueKeyOf(r) == r.k

\* prepare_merge_keys: the '_merge_key' of a row
MergeKey(r) ==
    ConcatStr([i \in 1..5 |-> StripChars(r.k[i])], "|")

MergeKeysOfBag(b) == {MergeKey(r) : r \in BagToSet(b)}

\* The rows DataFrame.unique(subset=unique_keys, keep='last') may keep for
\* key k.  With the date column present the frame was first put through
\* DataFrame.sort(date), which is called without maintain_order: rows of
\* equal date come out in an unspecified order (nulls first), so any row
\* carrying the greatest date of its key may end up last.  Without the date
\* column no sort happens and the last row in input order is kept.
DedupCandidates(df, hasDate, k) ==
    LET idx == {i \in DOMAIN df : UniqueKeyOf(df[i]) = k}
        top == SetMax({df[i].d : i \in idx})
    IN  IF hasDate THEN {df[i] : i \in {j \in idx : df[j].d = top}}
        ELSE {df[SetMax(idx)]}

\* deduplicate_data: the set of (deduplicated rows, duplicates_removed)
\* results the call can return
DeduplicateData(df, hasDate) ==
    LET keys == {UniqueKeyOf(df[i]) : i \in DOMAIN df}
        picks == {f \in [keys -> Range(df)] :
                     \A k \in keys : f[k] \in DedupCandidates(df, hasDate, k)}
    IN  {[df |-> SetToBag({f[k] : k \in keys}),
          duplicates_removed |-> Len(df) - Cardinality(keys)] : f \in picks}

\* identify_changes with the set difference forgotten
IdentifyChangesNoDifference(current_keys, incremental_keys) ==
    [update_keys |-> current_keys \cap incremental_keys,
     new_keys |-> incremental_keys]

\* identify_changes
IdentifyChanges(current_keys, incremental_keys) ==
    [update_keys |-> current_keys \cap incremental_keys,
     new_keys |-> incremental_keys \ current_keys]

\* check_duplicate_keys: the warning it logs about rows to be removed, or
\* none.  keys is duplicates_being_updated, of which the log lists the first
\* ten in sorted order and counts the rest.
CheckDuplicateKeys(current_df, update_keys) ==
    LET n(mk) == Count(current_df, LAMBDA r : MergeKey(r) = mk)
        duplicate_keys_set == {mk \in MergeKeysOfBag(current_df) : n(mk) > 1}
        duplicates_being_updated == update_keys \cap duplicate_keys_set
    IN  IF duplicates_being_updated # {}
        THEN [warned |-> TRUE, keys |-> duplicates_being_updated,
              extra_rows_removed |->
                  Count(current_df, LAMBDA r : MergeKey(r) \in duplicates_being_updated)
                  - Cardinality(duplicates_being_updated)]
        ELSE [warned |-> FALSE, keys |-> {}, extra_rows_removed |-> 0]

\* merge_dataframes patching the null date of an incoming row from the
\* baseline row it replaces
MergeDataframesPatching(current_df, incremental_df, update_keys) ==
    LET old(r) == {p \in BagToSet(current_df) : MergeKey(p) = MergeKey(r)}
        patch(r) == IF r.d = NullDate /\ old(r) # {}
                    THEN [r EXCEPT !.d = (CHOOSE p \in old(r) : TRUE).d]
                    ELSE r
    IN  FilterBag(current_df, LAMBDA r : MergeKey(r) \notin update_keys)
            (+) SetToBag({patch(r) : r \in BagToSet(incremental_df)})

\* merge_dataframes appending without removing the rows to update
MergeDataframesAppendOnly(current_df, incremental_df, update_keys) ==
    current_df (+) incremental_df

\* merge_dataframes
MergeDataframes(current_df, incremental_df, update_keys) ==
    LET updated_df == IF update_keys # {}
                      THEN FilterBag(current_df, LAMBDA r : MergeKey(r) \notin update_keys)
                      ELSE current_df
    IN  updated_df (+) incremental_df


(***************************************************************************)
(* Files.  A batch file is named by its identifier and holds one of a few  *)
(* contents; hasKeys / hasDate say whether the extract carries all five    *)
(* key columns / the Item Update Date column.                              *)
(***************************************************************************)
FileOrder == <<"full_week1.xlsx", "incremental_1.xlsx", "incremental_2.xlsx", "other.xlsx">>
FileNames == Range(FileOrder)

\* glob pattern 'incremental_*.xlsx'
IsIncremental(n) == n \in {"incremental_1.xlsx", "incremental_2.xlsx"}
\* glob pattern 'full_week*.xlsx'
IsWeeklyFull(n) == n = "full_week1.xlsx"

ExcludeCorpAcct == {<<"9">>}
MaxIncrementalsPerRun == 10
\* the values of processing_schedule.max_incrementals_per_run a run is
\* configured with: one batch per run, or the default
MaxIncrementalsChoices == {1, MaxIncrementalsPerRun}
ArchiveAfterProcessing == TRUE

ContentIds == {"unreadable", "nokeys", "r1", "r2", "excl", "extra"}

\* the contents under which a file of a given name arrives
ArrivalContents(n) ==
    IF IsIncremental(n) THEN ContentIds
    ELSE IF IsWeeklyFull(n) THEN {"r1"}
    ELSE {"nokeys", "r1"}

Content(id) ==
    CASE id = "unreadable" ->
            [readable |-> FALSE, hasKeys |-> FALSE, hasDate |-> FALSE, hasExtra |-> FALSE,
             rows |-> <<>>]
      [] id = "nokeys" ->
            [readable |-> TRUE, hasKeys |-> FALSE, hasDate |-> TRUE, hasExtra |-> FALSE,
             rows |-> <<MkRow(KeyB, 1, <<"x">>)>>]
      [] id = "r1" ->
            [readable |-> TRUE, hasKeys |-> TRUE, hasDate |-> TRUE, hasExtra |-> FALSE,
             rows |-> <<MkRow(KeyARaw, 1, <<"x">>)>>]
      [] id = "r2" ->
            [readable |-> TRUE, hasKeys |-> TRUE, hasDate |-> TRUE, hasExtra |-> FALSE,
             rows |-> <<MkRow(KeyA, 2, <<"y">>), MkRow(KeyB, 1, <<"x">>),
                        MkRow(KeyE, 1, <<"x">>)>>]
      \* every row is of the excluded corporate account
      [] id = "excl" ->
            [readable |-> TRUE, hasKeys |-> TRUE, hasDate |-> TRUE, hasExtra |-> FALSE,
             rows |-> <<MkRow(KeyE, 1, <<"x">>)>>]
      \* an extract with the optional column
      [] id = "extra" ->
            [readable |-> TRUE, hasKeys |-> TRUE, hasDate |-> TRUE, hasExtra |-> TRUE,
             rows |-> <<[MkRow(KeyB, 2, <<"y">>) EXCEPT !.e = <<"e">>]>>]

Absent == [present |-> FALSE, content |-> "none", mtime |-> 0]

EmptyFrame == [rows |-> EmptyBag, hasKeys |-> FALSE, hasDate |-> FALSE, hasExtra |-> FALSE]
NoDb == [exists |-> FALSE, frame |-> EmptyFrame, old |-> FALSE]
NoState == [exists |-> FALSE, applied_incrementals |-> {}, has_applied |-> FALSE,
            file_timestamps |-> {}, last_backup |-> 0, row_count |-> 0, partial |-> FALSE]

VARIABLES
    mainFolder,     \* the batch discovery directory: file name -> file
    dbFile,         \* the baseline parquet file
    stateFile,      \* the persisted sync state (JSON)
    backupFolder,   \* set of snapshots [id, frame, old]
    archiveFolder,  \* set of archived batch files [name, mtime, old]
    clock,          \* number of file arrivals so far (modification time stamps)
    runCount,       \* number of runs started so far (names the backups)
    pc,             \* position of the current run of update_parquet_if_needed
    run,            \* locals of the current run
    fn              \* inputs and results of the merge functions applied alone

vars == <<mainFolder, dbFile, stateFile, backupFolder, archiveFolder, clock, runCount, pc, run, fn>>

sysVars == <<mainFolder, dbFile, stateFile, backupFolder, archiveFolder, clock, runCount, pc, run>>

(***************************************************************************)
(* sync_state.py                                                           *)
(***************************************************************************)
\* load_state: the persisted state, or the default when there is no file
LoadState(sf) ==
    IF sf.exists THEN sf
    ELSE [exists |-> TRUE, applied_incrementals |-> {}, has_applied |-> TRUE,
          file_timestamps |-> {}, last_backup |-> 0, row_count |-> 0, partial |-> FALSE]

\* save_state interrupted after open(state_file, 'w') has truncated the file:
\* the file holds no complete JSON document
PartialState == [NoState EXCEPT !.exists = TRUE, !.partial = TRUE]

\* state.get('applied_incrementals', [])
AppliedIncrementals(state) ==
    IF state.has_applied THEN state.applied_incrementals ELSE {}

(***************************************************************************)
(* file_discovery.py                                                       *)
(***************************************************************************)
Present(folder) == {n \in FileNames : folder[n].present}

RECURSIVE SortedFrom(_, _)
SortedFrom(S, i) ==
    IF i > Len(FileOrder) THEN <<>>
    ELSE (IF FileOrder[i] \in S THEN <<FileOrder[i]>> ELSE <<>>) \o SortedFrom(S, i + 1)

\* sorted(...) of a set of file names
Sorted(S) == SortedFrom(S, 1)

\* get_excel_files: main_folder.rglob('*.xlsx')
GetExcelFiles(folder) == Present(folder)

\* get_incremental_files
GetIncrementalFiles(folder) == Sorted({n \in Present(folder) : IsIncremental(n)})

\* get_weekly_full_files
GetWeeklyFullFiles(folder) == Sorted({n \in Present(folder) : IsWeeklyFull(n)})

Timestamps(folder) == {<<n, folder[n].mtime>> : n \in GetExcelFiles(folder)}

\* check_for_changes: <<has_changes, current_timestamps>>
CheckForChanges(folder, sf) ==
    LET old_timestamps == LoadState(sf).file_timestamps
        current_timestamps == Timestamps(folder)
    IN  IF GetExcelFiles(folder) = {} THEN <<FALSE, {}>>
        ELSE <<current_timestamps # old_timestamps, current_timestamps>>

(***************************************************************************)
(* ingest.py and transformation.py                                         *)
(***************************************************************************)
StripRow(r) == [r EXCEPT !.k = [i \in 1..5 |-> StripChars(r.k[i])]]

\* process_excel_files on one file: None (here <<FALSE, ..>>) when the file
\* cannot be read, the error being swallowed
ReadExcel(id) ==
    LET c == Content(id)
    IN  IF c.readable
        THEN [ok |-> TRUE, hasKeys |-> c.hasKeys, hasDate |-> c.hasDate,
              hasExtra |-> c.hasExtra,
              rows |-> [i \in DOMAIN c.rows |-> StripRow(c.rows[i])]]
        ELSE [ok |-> FALSE, hasKeys |-> FALSE, hasDate |-> FALSE, hasExtra |-> FALSE,
              rows |-> <<>>]

\* clean_dataframe: strings trimmed, blanks to null
CleanDataframe(rows) == [i \in DOMAIN rows |-> StripRow(rows[i])]

Excluded(r) == r.k[2] \in ExcludeCorpAcct

NotExcluded(r) == ~Excluded(r)

\* apply_filters on a sequence of rows / on a bag of rows
ApplyFiltersSeq(rows) == SelectSeq(rows, NotExcluded)
ApplyFilters(b) == FilterBag(b, LAMBDA r : ~Excluded(r))


(***************************************************************************)
(* quality.py: track_row_changes.  A frame is its rows and the flags of    *)
(* the columns it has; a change record is a row of the audit frame.        *)
(***************************************************************************)
KeyColumns == <<"PMM Item Number", "Corp Acct", "Vendor Code",
                "Additional Cost Centre", "Additional GL Account">>
DateColumn == "Item Update Date"
ValueColumn == "Default UOM Price"
\* the optional column of an extract
ExtraColumn == "Vendor Catalogue"

\* the columns of a frame other than the date column
Columns(hasExtra) ==
    Range(KeyColumns) \cup {ValueColumn} \cup (IF hasExtra THEN {ExtraColumn} ELSE {})

KeyIndex(col) == CHOOSE i \in 1..5 : KeyColumns[i] = col

\* the value a row holds in a column (a blank key component is null)
Cell(r, col) ==
    IF col \in Range(KeyColumns)
    THEN (IF r.k[KeyIndex(col)] = <<>> THEN Null ELSE r.k[KeyIndex(col)])
    ELSE IF col = ValueColumn THEN r.v ELSE r.e

\* cast(pl.Utf8).fill_null('')
StrForm(v) == IF v = Null THEN <<>> ELSE v

RECURSIVE Split(_, _)
\* str.split(sep): the parts of s between the separators
Split(s, sep) ==
    IF s = <<>> THEN << <<>> >>
    ELSE IF Head(s) = sep THEN << <<>> >> \o Split(Tail(s), sep)
    ELSE LET rest == Split(Tail(s), sep)
         IN  << <<Head(s)>> \o rest[1] >> \o Tail(rest)

\* lines 319-327 and 359-367: the key columns of a change record, parsed
\* back from the '|'-joined key
KeyParts(uk) == [i \in 1..5 |-> Split(uk, "|")[i]]

ScaleBag(b, n) == [r \in DOMAIN b |-> b[r] * n]

\* lines 298-337: the Updated records of current row c against previous row p
UpdatedRecords(c, p, compare_cols) ==
    {[key |-> KeyParts(MergeKey(c)), column |-> col,
      previous |-> Cell(p, col), current |-> Cell(c, col),
      date |-> c.d, type |-> "Updated"] :
        col \in {x \in compare_cols : StrForm(Cell(c, x)) # StrForm(Cell(p, x))}}

RECURSIVE UpdatedAgainst(_, _, _, _)
\* the inner join of the melted row c with the melted previous rows ps
UpdatedAgainst(c, ps, previous, compare_cols) ==
    IF ps = {} THEN EmptyBag
    ELSE LET p == CHOOSE x \in ps : TRUE
         IN  ScaleBag(SetToBag(UpdatedRecords(c, p, compare_cols)), previous[p])
                 (+) UpdatedAgainst(c, ps \ {p}, previous, compare_cols)

\* lines 343-376: the New records of current row c
NewRecords(c, new_cols) ==
    {[key |-> KeyParts(MergeKey(c)), column |-> col,
      previous |-> Null, current |-> Cell(c, col),
      date |-> c.d, type |-> "New"] :
        col \in {x \in new_cols : Cell(c, x) # Null}}

RECURSIVE ChangesOfRows(_, _, _)
\* audit_df: the records of every row of current
ChangesOfRows(current, previous, cols) ==
    IF current = <<>> THEN EmptyBag
    ELSE LET c == Head(current)
             same == {p \in BagToSet(previous) : MergeKey(p) = MergeKey(c)}
         IN  (IF same = {} THEN SetToBag(NewRecords(c, cols))
              ELSE UpdatedAgainst(c, same, previous, cols))
                 (+) ChangesOfRows(Tail(current), previous, cols)

\* line 299: prev_subset selects every column of current from previous and
\* raises when previous lacks one, if any current row is an update
TrackRaises(currentRows, curHasExtra, previous, prevHasExtra) ==
    /\ \E c \in currentRows : MergeKey(c) \in MergeKeysOfBag(previous)
    /\ ~(Columns(curHasExtra) \subseteq Columns(prevHasExtra))

NoChanges == [raised |-> FALSE, has_changes |-> FALSE, changes |-> EmptyBag,
              new_rows |-> 0, updated_rows |-> 0]

\* track_row_changes(current, previous): raised, or has_changes with the
\* audit frame and the counts of the summary ('changes_summary' is None
\* when has_changes is False).  previous has the key columns.
TrackRowChanges(current, curHasKeys, curHasDate, curHasExtra, previous, prevHasExtra) ==
    LET previous_keys == MergeKeysOfBag(previous)
        isNew(r) == MergeKey(r) \notin previous_keys
        isUpdated(r) == MergeKey(r) \in previous_keys
        audit_df == ChangesOfRows(current, previous, Columns(curHasExtra))
    IN  IF ~curHasKeys \/ ~curHasDate \/ current = <<>> THEN NoChanges
        ELSE IF TrackRaises(Range(current), curHasExtra, previous, prevHasExtra)
        THEN [NoChanges EXCEPT !.raised = TRUE]
        ELSE IF audit_df = EmptyBag THEN NoChanges
        ELSE [raised |-> FALSE, has_changes |-> TRUE, changes |-> audit_df,
              new_rows |-> Len(SelectSeq(current, isNew)),
              updated_rows |-> Len(SelectSeq(current, isUpdated))]

(***************************************************************************)
(* quality.py: validate_parquet_data.                                      *)
(***************************************************************************)
\* df.columns of a stored frame
FrameColumns(frame) ==
    (IF frame.hasKeys THEN Range(KeyColumns) ELSE {}) \cup {ValueColumn}
        \cup (IF frame.hasDate THEN {DateColumn} ELSE {})
        \cup (IF frame.hasExtra THEN {ExtraColumn} ELSE {})

\* the value a row holds in a column the validator reads
ValCell(r, col) ==
    IF col = "Contract No" THEN (IF "c" \in DOMAIN r THEN r.c ELSE Null)
    ELSE IF col = "Vendor Seq" THEN (IF "s" \in DOMAIN r THEN r.s ELSE Null)
    ELSE Cell(r, col)

\* lines 49-58: the PMM Item Numbers allowed a blank Vendor Catalogue (no
\* blank_vpn_permitted_file configured)
PermittedPmmList == {}

\* lines 61-80, check 1: the contracts with more than one vendor code
ContractsWithMultipleVendors(rows) ==
    LET checked == {r \in BagToSet(rows) :
                       /\ ValCell(r, "Contract No") # Null
                       /\ ValCell(r, "Vendor Code") # Null
                       /\ StripChars(ValCell(r, "Contract No")) # <<"N", "/", "A">>}
        vendors(c) == {ValCell(r, "Vendor Code") : r \in {x \in checked : ValCell(x, "Contract No") = c}}
    IN  {c \in {ValCell(r, "Contract No") : r \in checked} : Cardinality(vendors(c)) > 1}

\* lines 85-93, check 2: the number of rows with a blank Vendor Catalogue
BlankVendorCatalogueCount(rows) ==
    Count(rows, LAMBDA r :
        /\ \/ ValCell(r, "Vendor Catalogue") = Null
           \/ StripChars(ValCell(r, "Vendor Catalogue")) = <<>>
        /\ PermittedPmmList # {} => ValCell(r, "PMM Item Number") \notin PermittedPmmList)

\* str.slice(0, 2)
Slice2(s) == IF Len(s) <= 2 THEN s ELSE SubSeq(s, 1, 2)

\* lines 113-135, check 3: the (PMM Item Number, Vendor Code, Corp Acct
\* prefix) groups with more than one Vendor Catalogue value
InconsistentVendorCatalogue(rows) ==
    LET group(r) == <<ValCell(r, "PMM Item Number"), ValCell(r, "Vendor Code"),
                      Slice2(ValCell(r, "Corp Acct"))>>
        consistency_df == {r \in BagToSet(rows) :
                              /\ ValCell(r, "PMM Item Number") # Null
                              /\ ValCell(r, "Vendor Code") # Null
                              /\ ValCell(r, "Vendor Catalogue") # Null
                              /\ ValCell(r, "Corp Acct") # Null
                              /\ ValCell(r, "Vendor Seq") # Null
                              /\ StripChars(ValCell(r, "Vendor Catalogue")) # <<>>}
        catalogues(g) == {ValCell(r, "Vendor Catalogue") : r \in {x \in consistency_df : group(x) = g}}
    IN  {g \in {group(r) : r \in consistency_df} : Cardinality(catalogues(g)) > 1}

\* lines 140-155: the reported items, each with its distinct catalogue values
\* and the Vendor Seq values of its rows
InconsistentItems(rows) ==
    LET group(r) == <<ValCell(r, "PMM Item Number"), ValCell(r, "Vendor Code"),
                      Slice2(ValCell(r, "Corp Acct"))>>
        consistency_df == {r \in BagToSet(rows) :
                              /\ ValCell(r, "PMM Item Number") # Null
                              /\ ValCell(r, "Vendor Code") # Null
                              /\ ValCell(r, "Vendor Catalogue") # Null
                              /\ ValCell(r, "Corp Acct") # Null
                              /\ ValCell(r, "Vendor Seq") # Null
                              /\ StripChars(ValCell(r, "Vendor Catalogue")) # <<>>}
        members(g) == {x \in consistency_df : group(x) = g}
    IN  {[pmm_item |-> g[1], vendor_code |-> g[2], corp_acct |-> g[3],
          catalogue_values |-> {ValCell(r, "Vendor Catalogue") : r \in members(g)},
          vendor_seq_values |-> {ValCell(r, "Vendor Seq") : r \in members(g)}] :
            g \in InconsistentVendorCatalogue(rows)}

\* validate_parquet_data(df): check 3 is guarded by four columns and reads
\* 'Vendor Seq' as well (lines 112, 120, 130)
ValidateParquetData(rows, columns) ==
    LET check1 == {"Contract No", "Vendor Code"} \subseteq columns
        check2 == "Vendor Catalogue" \in columns
        check3 == {"PMM Item Number", "Vendor Code", "Vendor Catalogue", "Corp Acct"} \subseteq columns
        contracts == IF check1 THEN Cardinality(ContractsWithMultipleVendors(rows)) ELSE 0
        blank_count == IF check2 THEN BlankVendorCatalogueCount(rows) ELSE 0
        raised == check3 /\ "Vendor Seq" \notin columns
        inconsistent_count == IF check3 /\ ~raised
                              THEN Cardinality(InconsistentVendorCatalogue(rows)) ELSE 0
    IN  [raised |-> raised,
         has_issues |-> ~raised /\ (contracts > 0 \/ blank_count > 0 \/ inconsistent_count > 0),
         contracts_with_multiple_vendors |-> contracts,
         blank_vendor_catalogue_count |-> blank_count,
         inconsistent_vendor_catalogue_count |-> inconsistent_count,
         inconsistent_vendor_catalogue_items |->
             IF check3 /\ ~raised THEN InconsistentItems(rows) ELSE {}]

(***************************************************************************)
(* backup.py                                                               *)
(***************************************************************************)
\* create_backup making an empty snapshot file instead of a copy
CreateBackupWithoutCopy(db, folder, id) ==
    IF ~db.exists THEN <<0, folder>>
    ELSE <<id, {b \in folder : b.id # id} \cup {[id |-> id, frame |-> EmptyFrame, old |-> db.old]}>>

\* create_backup: <<backup_path or 0, backup folder afterwards>>; copy2
\* keeps the modification time of the baseline file
CreateBackup(db, folder, id) ==
    IF ~db.exists THEN <<0, folder>>
    ELSE <<id, {b \in folder : b.id # id} \cup {[id |-> id, frame |-> db.frame, old |-> db.old]}>>

\* cleanup_old_backups: snapshots whose modification time is older than the
\* retention period are removed
CleanupOldBackups(folder) == {b \in folder : ~b.old}

\* cleanup_old_archives
CleanupOldArchives(folder) == {a \in folder : ~a.old}

(***************************************************************************)
(* The run: locals of update_parquet_if_needed and of the function it      *)
(* calls.  start is the content of the files when the run began.           *)
(***************************************************************************)
EmptyStart == [db |-> NoDb, state |-> NoState, folder |-> [n \in FileNames |-> Absent],
               backups |-> {}, archive |-> {}]

EmptyRun ==
    [mode |-> "none", force |-> FALSE, max_incrementals |-> MaxIncrementalsPerRun,
     state |-> NoState, files |-> <<>>,
     loaded |-> {}, current_df |-> EmptyFrame, incoming |-> <<>>,
     incHasKeys |-> FALSE, incHasDate |-> FALSE, incHasExtra |-> FALSE,
     deduped |-> EmptyBag, duplicates_removed |-> 0,
     update_keys |-> {}, new_keys |-> {},
     updated_df |-> EmptyFrame, backup |-> 0, timestamps |-> {},
     previous_loaded |-> FALSE, has_issues |-> FALSE, at |-> "none", start |-> EmptyStart]

FnIdle == [phase |-> "off", baseline |-> EmptyBag, incoming |-> <<>>, hasDate |-> TRUE,
           deduped |-> EmptyBag, duplicates_removed |-> 0,
           update_keys |-> {}, new_keys |-> {},
           warning |-> [warned |-> FALSE, keys |-> {}, extra_rows_removed |-> 0],
           merged |-> EmptyBag, retried |-> EmptyBag]

SysInit ==
    /\ mainFolder = [n \in FileNames |-> Absent]
    /\ dbFile = NoDb
    /\ stateFile = NoState
    /\ backupFolder = {}
    /\ archiveFolder = {}
    /\ clock = 0
    /\ runCount = 0
    /\ pc = "idle"
    /\ run = EmptyRun

\* An installation in service: the baseline was built by a rebuild from the
\* weekly full extract, which is still in the discovery directory, and the
\* rebuild saved its state (orchestrator.py lines 307-322).
Installed ==
    /\ mainFolder = [n \in FileNames |->
                        IF n = "full_week1.xlsx"
                        THEN [present |-> TRUE, content |-> "r1", mtime |-> 0]
                        ELSE Absent]
    /\ dbFile = [exists |-> TRUE,
                 frame |-> [rows |-> SeqToBag(ApplyFiltersSeq(CleanDataframe(ReadExcel("r1").rows))),
                            hasKeys |-> TRUE, hasDate |-> TRUE, hasExtra |-> FALSE],
                 old |-> FALSE]
    /\ stateFile = [exists |-> TRUE, applied_incrementals |-> {}, has_applied |-> FALSE,
                    file_timestamps |-> {<<"full_week1.xlsx", 0>>}, last_backup |-> 0,
                    row_count |-> 1, partial |-> FALSE]
    /\ backupFolder = {}
    /\ archiveFolder = {}
    /\ clock = 0
    /\ runCount = 0
    /\ pc = "idle"
    /\ run = EmptyRun

\* An installation in service that never received a weekly full extract:
\* the baseline was rebuilt from other.xlsx (content r1), then a run merged
\* incremental_1.xlsx (content r2), saved its state (lines 200-217) and
\* archived the file.  The snapshot of that run is in the backup folder.
\* One more arrival and one more run of this installation are followed.
InService ==
    /\ mainFolder = [n \in FileNames |->
                        IF n = "other.xlsx"
                        THEN [present |-> TRUE, content |-> "r1", mtime |-> 0]
                        ELSE Absent]
    /\ dbFile = [exists |-> TRUE,
                 frame |-> [rows |-> SetToBag({MkRow(KeyA, 2, <<"y">>), MkRow(KeyB, 1, <<"x">>)}),
                            hasKeys |-> TRUE, hasDate |-> TRUE, hasExtra |-> FALSE],
                 old |-> FALSE]
    /\ stateFile = [exists |-> TRUE, applied_incrementals |-> {"incremental_1.xlsx"},
                    has_applied |-> TRUE, file_timestamps |-> {<<"other.xlsx", 0>>},
                    last_backup |-> 0, row_count |-> 2, partial |-> FALSE]
    /\ backupFolder = {[id |-> MaxRuns - 1, old |-> FALSE,
                        frame |-> [rows |-> SetToBag({MkRow(KeyA, 1, <<"x">>)}),
                                   hasKeys |-> TRUE, hasDate |-> TRUE, hasExtra |-> FALSE]]}
    /\ archiveFolder = {[name |-> "incremental_1.xlsx", mtime |-> 0, old |-> FALSE]}
    /\ clock = MaxArrivals - 1
    /\ runCount = MaxRuns - 1
    /\ pc = "idle"
    /\ run = EmptyRun

\* a new installation, or one in service
Init == (SysInit \/ Installed \/ InService) /\ fn = FnIdle

(***************************************************************************)
(* Environment.                                                            *)
(***************************************************************************)
\* an extract is dropped into the discovery directory (a new file, or a
\* file sent again under the name of one that was archived)
FileArrives(n, c) ==
    /\ pc = "idle"
    /\ ~mainFolder[n].present
    /\ clock < MaxArrivals
    /\ clock' = clock + 1
    /\ mainFolder' = [mainFolder EXCEPT ![n] = [present |-> TRUE, content |-> c, mtime |-> clock + 1]]
    /\ UNCHANGED <<dbFile, stateFile, backupFolder, archiveFolder, runCount, pc, run, fn>>

\* more than the retention periods elapse between two runs
TimePasses ==
    /\ pc = "idle"
    /\ \/ dbFile.exists /\ ~dbFile.old
       \/ \E b \in backupFolder : ~b.old
       \/ \E a \in archiveFolder : ~a.old
    /\ dbFile' = IF dbFile.exists THEN [dbFile EXCEPT !.old = TRUE] ELSE dbFile
    /\ backupFolder' = {[b EXCEPT !.old = TRUE] : b \in backupFolder}
    /\ archiveFolder' = {[a EXCEPT !.old = TRUE] : a \in archiveFolder}
    /\ UNCHANGED <<mainFolder, stateFile, clock, runCount, pc, run, fn>>

(***************************************************************************)
(* orchestrator.py: update_parquet_if_needed, choice of the update mode.   *)
(***************************************************************************)
\* lines 159-175 keeping the last max_incrementals files instead of the first
UnappliedKeepingLast(folder, applied, max_incrementals) ==
    LET all_incremental_files == GetIncrementalFiles(folder)
        unapplied == Sorted({n \in Range(all_incremental_files) : n \notin applied})
    IN  IF Len(unapplied) > max_incrementals
        THEN SubSeq(unapplied, Len(unapplied) - max_incrementals + 1, Len(unapplied))
        ELSE unapplied

\* lines 159-175: the unapplied incremental files, sorted, cut to the cap
Unapplied(folder, applied, max_incrementals) ==
    LET all_incremental_files == GetIncrementalFiles(folder)
        unapplied == Sorted({n \in Range(all_incremental_files) : n \notin applied})
    IN  IF Len(unapplied) > max_incrementals
        THEN SubSeq(unapplied, 1, max_incrementals)
        ELSE unapplied

\* lines 159-175 and 245-260.  A cap that does not cut the list of unapplied
\* files gives the run of the default cap, so it is drawn only when it cuts.
Start(force, max_incrementals) ==
    /\ pc = "idle"
    /\ \/ max_incrementals = MaxIncrementalsPerRun
       \/ Cardinality(Range(Unapplied(mainFolder, AppliedIncrementals(LoadState(stateFile)),
                                      MaxIncrementalsPerRun))) > max_incrementals
    /\ runCount < MaxRuns
    /\ runCount' = runCount + 1
    /\ LET state == LoadState(stateFile)
           unapplied_incrementals ==
               Unapplied(mainFolder, AppliedIncrementals(state), max_incrementals)
           chk == CheckForChanges(mainFolder, stateFile)
           begun == [EmptyRun EXCEPT !.force = force, !.state = state,
                        !.max_incrementals = max_incrementals,
                        !.start = [db |-> dbFile, state |-> stateFile, folder |-> mainFolder,
                                   backups |-> backupFolder, archive |-> archiveFolder]]
       IN  IF stateFile.partial
           THEN /\ pc' = "failed"
                /\ run' = [begun EXCEPT !.at = "load_state"]
           ELSE IF unapplied_incrementals # <<>>
           THEN /\ pc' = "inc_open"
                /\ run' = [begun EXCEPT !.mode = "incremental", !.files = unapplied_incrementals]
           ELSE IF ~force /\ ~chk[1]
           THEN /\ pc' = "uptodate"
                /\ run' = [begun EXCEPT !.mode = "uptodate"]
           ELSE /\ pc' = "reb_open"
                /\ run' = [begun EXCEPT !.mode = "rebuild",
                              !.timestamps = IF force THEN Timestamps(mainFolder) ELSE chk[2]]
    /\ UNCHANGED <<mainFolder, dbFile, stateFile, backupFolder, archiveFolder, clock, fn>>

\* the except clause of the incremental branch: log and re-raise
IncRaise ==
    /\ pc' = "failed"
    /\ run' = [run EXCEPT !.at = pc]
    /\ UNCHANGED <<mainFolder, dbFile, stateFile, backupFolder, archiveFolder, clock, runCount, fn>>

\* the except clause of the rebuild branch: restore the backup, re-raise
RebRaise ==
    /\ pc' = "failed"
    /\ dbFile' = IF run.backup # 0 /\ \E b \in backupFolder : b.id = run.backup
                 THEN LET b == CHOOSE x \in backupFolder : x.id = run.backup
                      IN  [exists |-> TRUE, frame |-> b.frame, old |-> b.old]
                 ELSE dbFile
    /\ run' = [run EXCEPT !.at = pc]
    /\ UNCHANGED <<mainFolder, stateFile, backupFolder, archiveFolder, clock, runCount, fn>>


(***************************************************************************)
(* core.py: apply_incremental_update (batch mode), one step per stage.     *)
(***************************************************************************)
RECURSIVE LoadAll(_, _)
\* the loop over incremental_files: rows of the files that could be read,
\* in file order, each tagged with its source_file
LoadAll(files, folder) ==
    IF files = <<>> THEN <<>>
    ELSE LET df == ReadExcel(folder[Head(files)].content)
             tagged == [i \in DOMAIN df.rows |-> [row |-> df.rows[i], src |-> Head(files)]]
         IN  (IF df.ok THEN tagged ELSE <<>>) \o LoadAll(Tail(files), folder)

\* file_metadata: the files that were actually read
LoadedFiles(files, folder) ==
    {n \in Range(files) : ReadExcel(folder[n].content).ok}

RowsOf(tagged) == [i \in DOMAIN tagged |-> tagged[i].row]

IsFrom(n, t) == t.src = n

\* combined_incremental_df.filter(source_file == filename)
FileRows(tagged, n) == RowsOf(SelectSeq(tagged, LAMBDA t : IsFrom(n, t)))

TaggedNotExcluded(t) == NotExcluded(t.row)

\* lines 67-78 with the backup made by moving the baseline file away
IncOpenMovingBaseline ==
    /\ pc = "inc_open"
    /\ IF ~dbFile.exists
       THEN IncRaise
       ELSE /\ pc' = "inc_load"
            /\ run' = [run EXCEPT !.current_df = dbFile.frame, !.backup = runCount]
            /\ backupFolder' = CreateBackup(dbFile, backupFolder, runCount)[2]
            /\ dbFile' = NoDb
            /\ UNCHANGED <<mainFolder, stateFile, archiveFolder, clock, runCount, fn>>

\* lines 67-78: the baseline is read and backed up
IncOpen ==
    /\ pc = "inc_open"
    /\ IF ~dbFile.exists
       THEN IncRaise
       ELSE /\ pc' = "inc_load"
            /\ run' = [run EXCEPT !.current_df = dbFile.frame, !.backup = runCount]
            /\ backupFolder' = CreateBackup(dbFile, backupFolder, runCount)[2]
            /\ UNCHANGED <<mainFolder, dbFile, stateFile, archiveFolder, clock, runCount, fn>>

\* lines 87-147: batches loaded, combined, cleaned, filtered, key columns
\* required
IncLoad ==
    /\ pc = "inc_load"
    /\ LET loaded == LoadedFiles(run.files, mainFolder)
           all == LoadAll(run.files, mainFolder)
           cleaned == [i \in DOMAIN all |-> [all[i] EXCEPT !.row = StripRow(all[i].row)]]
           combined == SelectSeq(cleaned, TaggedNotExcluded)
           incHasKeys == \E n \in loaded : Content(mainFolder[n].content).hasKeys
           incHasDate == \E n \in loaded : Content(mainFolder[n].content).hasDate
           incHasExtra == \E n \in loaded : Content(mainFolder[n].content).hasExtra
       IN  IF loaded = {} \/ ~run.current_df.hasKeys \/ ~incHasKeys
           THEN IncRaise
           ELSE /\ pc' = "inc_track"
                /\ run' = [run EXCEPT !.loaded = loaded, !.incoming = combined,
                              !.incHasKeys = incHasKeys, !.incHasDate = incHasDate,
                              !.incHasExtra = incHasExtra]
                /\ UNCHANGED <<mainFolder, dbFile, stateFile, backupFolder, archiveFolder,
                               clock, runCount, fn>>

\* lines 149-269: per-file change tracking and its aggregation, which
\* dereferences the 'changes_summary' of every file
IncTrack ==
    /\ pc = "inc_track"
    /\ IF \E n \in run.loaded :
              LET file_change_results ==
                      TrackRowChanges(FileRows(run.incoming, n), run.incHasKeys,
                                      run.incHasDate, run.incHasExtra,
                                      run.current_df.rows, run.current_df.hasExtra)
              IN  file_change_results.raised \/ ~file_change_results.has_changes
       THEN IncRaise
       ELSE /\ pc' = "inc_merge"
            /\ UNCHANGED <<mainFolder, dbFile, stateFile, backupFolder, archiveFolder,
                           clock, runCount, run, fn>>

\* lines 280-310: deduplicate, merge keys, identify changes, merge, filter
IncMerge ==
    /\ pc = "inc_merge"
    /\ \E dd \in DeduplicateData(RowsOf(run.incoming), run.incHasDate) :
          LET ch == IdentifyChanges(MergeKeysOfBag(run.current_df.rows), MergeKeysOfBag(dd.df))
              merged == MergeDataframes(run.current_df.rows, dd.df, ch.update_keys)
          IN  run' = [run EXCEPT !.deduped = dd.df,
                         !.duplicates_removed = dd.duplicates_removed,
                         !.update_keys = ch.update_keys, !.new_keys = ch.new_keys,
                         !.updated_df = [rows |-> ApplyFilters(merged), hasKeys |-> TRUE,
                                         hasDate |-> run.current_df.hasDate \/ run.incHasDate,
                                         hasExtra |-> run.current_df.hasExtra \/ run.incHasExtra]]
    /\ pc' = "inc_write"
    /\ UNCHANGED <<mainFolder, dbFile, stateFile, backupFolder, archiveFolder, clock, runCount, fn>>

\* lines 312-314: updated_df.write_parquet(db_file)
IncWrite ==
    /\ pc = "inc_write"
    /\ dbFile' = [exists |-> TRUE, frame |-> run.updated_df, old |-> FALSE]
    /\ pc' = "inc_validate"
    /\ UNCHANGED <<mainFolder, stateFile, backupFolder, archiveFolder, clock, runCount, run, fn>>

\* lines 316-317: validate_parquet_data
IncValidate ==
    /\ pc = "inc_validate"
    /\ LET validation_results ==
               ValidateParquetData(run.updated_df.rows, FrameColumns(run.updated_df))
       IN  IF validation_results.raised
           THEN IncRaise
           ELSE /\ pc' = "inc_archive"
                /\ run' = [run EXCEPT !.has_issues = validation_results.has_issues]
                /\ UNCHANGED <<mainFolder, dbFile, stateFile, backupFolder, archiveFolder,
                               clock, runCount, fn>>

\* archive_file, for the first k files of the run
ArchiveFirst(k) ==
    LET moved == {run.files[i] : i \in 1..k}
    IN  /\ mainFolder' = [n \in FileNames |-> IF n \in moved THEN Absent ELSE mainFolder[n]]
        /\ archiveFolder' = archiveFolder \cup
               {[name |-> n, mtime |-> mainFolder[n].mtime, old |-> FALSE] : n \in moved}

\* lines 319-325: every file of the run is moved to the archive
IncArchive ==
    /\ pc = "inc_archive"
    /\ IF ArchiveAfterProcessing
       THEN ArchiveFirst(Len(run.files))
       ELSE UNCHANGED <<mainFolder, archiveFolder>>
    /\ pc' = "inc_report"
    /\ UNCHANGED <<dbFile, stateFile, backupFolder, clock, runCount, run, fn>>

\* shutil.move fails on the (k+1)-th file
IncArchiveFails(k) ==
    /\ pc = "inc_archive"
    /\ ArchiveAfterProcessing
    /\ k < Len(run.files)
    /\ ArchiveFirst(k)
    /\ pc' = "failed"
    /\ run' = [run EXCEPT !.at = pc]
    /\ UNCHANGED <<dbFile, stateFile, backupFolder, clock, runCount, fn>>

\* orchestrator.py lines 194-198: save_combined_report
IncReport ==
    /\ pc = "inc_report"
    /\ pc' = "inc_save"
    /\ UNCHANGED <<mainFolder, dbFile, stateFile, backupFolder, archiveFolder, clock, runCount, run, fn>>

\* orchestrator.py lines 200-217: the files of the run join the applied set
IncSave ==
    /\ pc = "inc_save"
    /\ stateFile' = [run.state EXCEPT
                        !.exists = TRUE,
                        !.has_applied = TRUE,
                        !.applied_incrementals = AppliedIncrementals(run.state) \cup Range(run.files),
                        !.row_count = BagCardinality(run.updated_df.rows)]
    /\ pc' = "inc_cleanup"
    /\ UNCHANGED <<mainFolder, dbFile, backupFolder, archiveFolder, clock, runCount, run, fn>>

\* save_state raises, or the process stops, while json.dump is writing
IncSaveFails ==
    /\ pc = "inc_save"
    /\ stateFile' = PartialState
    /\ pc' = "failed"
    /\ run' = [run EXCEPT !.at = pc]
    /\ UNCHANGED <<mainFolder, dbFile, backupFolder, archiveFolder, clock, runCount, fn>>

\* orchestrator.py lines 219-237: retention cleanups, return True
IncCleanup ==
    /\ pc = "inc_cleanup"
    /\ backupFolder' = CleanupOldBackups(backupFolder)
    /\ archiveFolder' = CleanupOldArchives(archiveFolder)
    /\ pc' = "done"
    /\ UNCHANGED <<mainFolder, dbFile, stateFile, clock, runCount, run, fn>>

\* an operation of the incremental branch raises (file system error on
\* reading the baseline, copying the backup, writing the baseline, writing
\* the report or the state; validation on a missing column)
IncIOSteps == {"inc_open", "inc_write", "inc_report", "inc_save", "inc_cleanup"}

IncException ==
    /\ pc \in IncIOSteps
    /\ IncRaise


(***************************************************************************)
(* orchestrator.py lines 245-353 and core.py rebuild_parquet: the rebuild  *)
(* from every Excel file of the discovery directory.                       *)
(***************************************************************************)
RECURSIVE ConcatRead(_, _)
\* process_excel_files over a list of files: unreadable files are skipped
ConcatRead(files, folder) ==
    IF files = <<>> THEN <<>>
    ELSE LET df == ReadExcel(folder[Head(files)].content)
         IN  (IF df.ok THEN df.rows ELSE <<>>) \o ConcatRead(Tail(files), folder)

\* lines 262-274 without the call of create_backup
RebOpenWithoutBackup ==
    /\ pc = "reb_open"
    /\ run' = [run EXCEPT !.previous_loaded = dbFile.exists,
                  !.current_df = dbFile.frame]
    /\ pc' = "reb_read"
    /\ UNCHANGED <<mainFolder, dbFile, stateFile, backupFolder, archiveFolder, clock, runCount, fn>>

\* lines 262-274: previous baseline loaded for comparison, backup created
RebOpen ==
    /\ pc = "reb_open"
    /\ run' = [run EXCEPT !.previous_loaded = dbFile.exists,
                  !.current_df = dbFile.frame,
                  !.backup = CreateBackup(dbFile, backupFolder, runCount)[1]]
    /\ backupFolder' = CreateBackup(dbFile, backupFolder, runCount)[2]
    /\ pc' = "reb_read"
    /\ UNCHANGED <<mainFolder, dbFile, stateFile, archiveFolder, clock, runCount, fn>>

\* rebuild_parquet, core.py lines 360-377
RebRead ==
    /\ pc = "reb_read"
    /\ LET excel_files == GetExcelFiles(mainFolder)
           readable == {n \in excel_files : ReadExcel(mainFolder[n].content).ok}
           rows == ApplyFiltersSeq(CleanDataframe(ConcatRead(Sorted(excel_files), mainFolder)))
       IN  IF excel_files = {} \/ readable = {}
           THEN RebRaise
           ELSE /\ pc' = "reb_write"
                /\ run' = [run EXCEPT !.loaded = readable,
                              !.updated_df =
                                  [rows |-> SeqToBag(rows),
                                   hasKeys |-> \E n \in readable : Content(mainFolder[n].content).hasKeys,
                                   hasDate |-> \E n \in readable : Content(mainFolder[n].content).hasDate,
                                   hasExtra |-> \E n \in readable : Content(mainFolder[n].content).hasExtra]]
                /\ UNCHANGED <<mainFolder, dbFile, stateFile, backupFolder, archiveFolder,
                               clock, runCount, fn>>

\* rebuild_parquet, core.py lines 379-381
RebWrite ==
    /\ pc = "reb_write"
    /\ dbFile' = [exists |-> TRUE, frame |-> run.updated_df, old |-> FALSE]
    /\ pc' = "reb_validate"
    /\ UNCHANGED <<mainFolder, stateFile, backupFolder, archiveFolder, clock, runCount, run, fn>>

\* rebuild_parquet, core.py lines 383-389
RebValidate ==
    /\ pc = "reb_validate"
    /\ LET validation_results ==
               ValidateParquetData(run.updated_df.rows, FrameColumns(run.updated_df))
       IN  IF validation_results.raised
           THEN RebRaise
           ELSE /\ pc' = "reb_track"
                /\ run' = [run EXCEPT !.has_issues = validation_results.has_issues]
                /\ UNCHANGED <<mainFolder, dbFile, stateFile, backupFolder, archiveFolder,
                               clock, runCount, fn>>

\* orchestrator.py lines 285-296: track_row_changes(final_df, previous_df), which builds the
\* key of previous_df without checking that it has the key columns
RebTrack ==
    /\ pc = "reb_track"
    /\ IF /\ run.previous_loaded
          /\ run.updated_df.hasKeys /\ run.updated_df.hasDate
          /\ run.updated_df.rows # EmptyBag
          /\ \/ ~run.current_df.hasKeys
             \/ TrackRaises(BagToSet(run.updated_df.rows), run.updated_df.hasExtra,
                            run.current_df.rows, run.current_df.hasExtra)
       THEN RebRaise
       ELSE /\ pc' = "reb_report"
            /\ UNCHANGED <<mainFolder, dbFile, stateFile, backupFolder, archiveFolder,
                           clock, runCount, run, fn>>

\* lines 298-305: save_combined_report
RebReport ==
    /\ pc = "reb_report"
    /\ pc' = "reb_save"
    /\ UNCHANGED <<mainFolder, dbFile, stateFile, backupFolder, archiveFolder, clock, runCount, run, fn>>

\* lines 307-322: the state is replaced by a new dictionary
RebSave ==
    /\ pc = "reb_save"
    /\ stateFile' = [exists |-> TRUE, applied_incrementals |-> {}, has_applied |-> FALSE,
                     file_timestamps |-> run.timestamps, last_backup |-> run.backup,
                     row_count |-> BagCardinality(run.updated_df.rows), partial |-> FALSE]
    /\ pc' = "reb_cleanup"
    /\ UNCHANGED <<mainFolder, dbFile, backupFolder, archiveFolder, clock, runCount, run, fn>>

\* save_state raises while json.dump is writing; the except clause restores
\* the backup
RebSaveFails ==
    /\ pc = "reb_save"
    /\ stateFile' = PartialState
    /\ pc' = "failed"
    /\ dbFile' = IF run.backup # 0 /\ \E b \in backupFolder : b.id = run.backup
                 THEN LET b == CHOOSE x \in backupFolder : x.id = run.backup
                      IN  [exists |-> TRUE, frame |-> b.frame, old |-> b.old]
                 ELSE dbFile
    /\ run' = [run EXCEPT !.at = pc]
    /\ UNCHANGED <<mainFolder, backupFolder, archiveFolder, clock, runCount, fn>>

\* lines 324-340: cleanup_old_backups, return True
RebCleanup ==
    /\ pc = "reb_cleanup"
    /\ backupFolder' = CleanupOldBackups(backupFolder)
    /\ pc' = "done"
    /\ UNCHANGED <<mainFolder, dbFile, stateFile, archiveFolder, clock, runCount, run, fn>>

\* an operation inside the try block of the rebuild branch raises
RebIOSteps == {"reb_write", "reb_report", "reb_save", "reb_cleanup"}

RebException ==
    /\ pc \in RebIOSteps
    /\ RebRaise

\* create_backup, called before the try block, raises
RebBackupException ==
    /\ pc = "reb_open"
    /\ IncRaise

\* the call returns (True, False) or the exception has propagated
Return ==
    /\ pc \in {"done", "failed", "uptodate"}
    /\ pc' = "idle"
    /\ run' = EmptyRun
    /\ UNCHANGED <<mainFolder, dbFile, stateFile, backupFolder, archiveFolder, clock, runCount, fn>>

Next ==
    \/ \E n \in FileNames : \E c \in ArrivalContents(n) : FileArrives(n, c)
    \/ TimePasses
    \/ \E force \in BOOLEAN : \E m \in MaxIncrementalsChoices : Start(force, m)
    \/ IncOpen
    \/ IncLoad
    \/ IncTrack
    \/ IncMerge
    \/ IncWrite
    \/ IncValidate
    \/ IncArchive
    \/ \E k \in 0..Len(FileOrder) : IncArchiveFails(k)
    \/ IncReport
    \/ IncSave
    \/ IncSaveFails
    \/ IncCleanup
    \/ IncException
    \/ RebOpen
    \/ RebRead
    \/ RebWrite
    \/ RebValidate
    \/ RebTrack
    \/ RebReport
    \/ RebSave
    \/ RebSaveFails
    \/ RebCleanup
    \/ RebException
    \/ RebBackupException
    \/ Return

Spec == Init /\ [][Next]_vars

(***************************************************************************)
(* The merge functions applied alone to every bounded baseline and every   *)
(* bounded incoming record set (already cleaned).                          *)
(***************************************************************************)
FnInit ==
    /\ SysInit
    /\ \E b \in BagsUpTo(BaselineRows, MaxBaselineRows),
          inc \in SeqsUpTo(CleanRows, MaxIncomingRows),
          hd \in BOOLEAN :
          /\ hd \/ \A i \in DOMAIN inc : inc[i].d = NullDate
          /\ fn = [FnIdle EXCEPT !.phase = "input", !.baseline = b, !.incoming = inc, !.hasDate = hd]

\* deduplicate_data
FnDeduplicate ==
    /\ fn.phase = "input"
    /\ \E dd \in DeduplicateData(fn.incoming, fn.hasDate) :
          fn' = [fn EXCEPT !.phase = "deduped", !.deduped = dd.df,
                    !.duplicates_removed = dd.duplicates_removed]
    /\ UNCHANGED sysVars

\* prepare_merge_keys on both sets, identify_changes
FnIdentify ==
    /\ fn.phase = "deduped"
    /\ LET ch == IdentifyChanges(MergeKeysOfBag(fn.baseline), MergeKeysOfBag(fn.deduped))
       IN  fn' = [fn EXCEPT !.phase = "identified",
                     !.update_keys = ch.update_keys, !.new_keys = ch.new_keys]
    /\ UNCHANGED sysVars

\* check_duplicate_keys
FnCheckDuplicates ==
    /\ fn.phase = "identified"
    /\ fn' = [fn EXCEPT !.phase = "checked",
                 !.warning = CheckDuplicateKeys(fn.baseline, fn.update_keys)]
    /\ UNCHANGED sysVars

\* merge_dataframes
FnMerge ==
    /\ fn.phase = "checked"
    /\ fn' = [fn EXCEPT !.phase = "merged",
                 !.merged = MergeDataframes(fn.baseline, fn.deduped, fn.update_keys)]
    /\ UNCHANGED sysVars

\* core.py lines 283-298 applied once more, to the merged baseline and the
\* same incoming set (the batch of a run that failed after the write)
FnRetry ==
    /\ fn.phase = "merged"
    /\ \E dd \in DeduplicateData(fn.incoming, fn.hasDate) :
          LET ch == IdentifyChanges(MergeKeysOfBag(fn.merged), MergeKeysOfBag(dd.df))
          IN  fn' = [fn EXCEPT !.phase = "retried",
                        !.retried = MergeDataframes(fn.merged, dd.df, ch.update_keys)]
    /\ UNCHANGED sysVars

FnNext == FnDeduplicate \/ FnIdentify \/ FnCheckDuplicates \/ FnMerge \/ FnRetry

MergeSpec == FnInit /\ [][FnNext]_vars

(***************************************************************************)
(* track_row_changes and the aggregation of apply_incremental_update over  *)
(* bounded inputs: the cleaned rows of one or two batch files against a    *)
(* baseline.                                                               *)
(***************************************************************************)
TrackFiles == {"incremental_1.xlsx", "incremental_2.xlsx"}
TrackKeys == {KeyA, KeyX}

\* cleaned rows of a batch (clean_dataframe: trimmed, blank is null)
TrackCurrentRows(hasExtra) ==
    {[k |-> k, d |-> 2, v |-> v, e |-> IF hasExtra THEN <<"e">> ELSE Null] :
        k \in TrackKeys, v \in {Null, <<"a">>}}

\* rows of a stored baseline
TrackPreviousRows(hasExtra) ==
    {[k |-> k, d |-> 1, v |-> v, e |-> IF hasExtra THEN <<"f">> ELSE Null] :
        k \in TrackKeys, v \in {Null, <<"a">>, <<"A">>, <<"a", " ">>}}

TrackIdle == [phase |-> "track_input", current |-> <<>>, curHasExtra |-> FALSE,
              previous |-> EmptyBag, prevHasExtra |-> FALSE,
              results |-> [n \in {} |-> NoChanges], raised |-> FALSE,
              changes |-> EmptyBag, total_changes |-> 0]

TrackInit ==
    /\ SysInit
    /\ \E ce \in BOOLEAN, pe \in BOOLEAN :
          \E cur \in SeqsUpTo([row : TrackCurrentRows(ce), src : TrackFiles], MaxIncomingRows),
             prev \in BagsUpTo(TrackPreviousRows(pe), MaxBaselineRows) :
              fn = [TrackIdle EXCEPT !.current = cur, !.curHasExtra = ce,
                                     !.previous = prev, !.prevHasExtra = pe]

RECURSIVE SumChanges(_, _)
\* pl.concat(all_changes_dfs, how='diagonal')
SumChanges(results, files) ==
    IF files = {} THEN EmptyBag
    ELSE LET n == CHOOSE x \in files : TRUE
         IN  results[n].changes (+) SumChanges(results, files \ {n})

RECURSIVE SumTotals(_, _)
\* aggregated_summary['total_changes']
SumTotals(results, files) ==
    IF files = {} THEN 0
    ELSE LET n == CHOOSE x \in files : TRUE
         IN  BagCardinality(results[n].changes) + SumTotals(results, files \ {n})

\* core.py 150-172 and 232-266: per-file tracking, then aggregation; a
\* file without changes has 'changes_summary' None and the sum raises
FnTrack ==
    /\ fn.phase = "track_input"
    /\ LET file_metadata == {t.src : t \in Range(fn.current)}
           all_change_results ==
               [n \in file_metadata |->
                   TrackRowChanges(FileRows(fn.current, n), TRUE, TRUE, fn.curHasExtra,
                                   fn.previous, fn.prevHasExtra)]
           raised == \E n \in file_metadata :
                        all_change_results[n].raised \/ ~all_change_results[n].has_changes
       IN  fn' = [fn EXCEPT !.phase = "tracked",
                            !.results = all_change_results,
                            !.raised = raised,
                            !.changes = IF raised THEN EmptyBag
                                        ELSE SumChanges(all_change_results, file_metadata),
                            !.total_changes = IF raised THEN 0
                                              ELSE SumTotals(all_change_results, file_metadata)]
    /\ UNCHANGED <<mainFolder, dbFile, stateFile, backupFolder, archiveFolder, clock,
                   runCount, pc, run>>

TrackNext == FnTrack

TrackSpec == TrackInit /\ [][TrackNext]_vars


(***************************************************************************)
(* validate_parquet_data over bounded frames that have the key columns and *)
(* any of the columns Contract No, Vendor Catalogue and Vendor Seq.        *)
(***************************************************************************)
KeyW == << <<"A">>, <<"1">>, <<"W">>, <<>>, <<>> >>
Key123 == << <<"A">>, <<"1", "2", "3">>, <<"V">>, <<>>, <<>> >>
Key124 == << <<"A">>, <<"1", "2", "4">>, <<"V">>, <<>>, <<>> >>
ValKeys == {KeyA, KeyW, Key123, Key124}
ValOptionalColumns == {"Contract No", "Vendor Catalogue", "Vendor Seq"}

\* the rows a frame with the given columns can hold
ValRows(columns) ==
    {[k |-> k, d |-> 1, v |-> <<"x">>, e |-> e, c |-> c, s |-> q] :
        k \in ValKeys,
        e \in IF "Vendor Catalogue" \in columns THEN {Null, <<"c">>, <<"d">>} ELSE {Null},
        c \in IF "Contract No" \in columns THEN {Null, <<"C">>} ELSE {Null},
        q \in IF "Vendor Seq" \in columns THEN {Null, <<"s">>} ELSE {Null}}

ValIdle == [phase |-> "validate_input", rows |-> EmptyBag, columns |-> {},
            validation_results |-> ValidateParquetData(EmptyBag, {})]

ValInit ==
    /\ SysInit
    /\ \E optional \in SUBSET ValOptionalColumns :
          \E rows \in BagsUpTo(ValRows(optional), MaxBaselineRows) :
              fn = [ValIdle EXCEPT !.rows = rows,
                                   !.columns = Range(KeyColumns) \cup optional]

\* core.py 317: validation_results = validate_parquet_data(updated_df, ...)
FnValidate ==
    /\ fn.phase = "validate_input"
    /\ fn' = [fn EXCEPT !.phase = "validated",
                        !.validation_results = ValidateParquetData(fn.rows, fn.columns)]
    /\ UNCHANGED <<mainFolder, dbFile, stateFile, backupFolder, archiveFolder, clock,
                   runCount, pc, run>>

ValNext == FnValidate

ValidateSpec == ValInit /\ [][ValNext]_vars

(***************************************************************************)
(* utils/date_utils.py: extract_date_range over a text column, with the    *)
(* date format of the integration pipeline, '%Y-%b-%d %I:%M:%S %p'.        *)
(***************************************************************************)
MaxDateValues == 3

DigitChars == <<"0", "1", "2", "3", "4", "5", "6", "7", "8", "9">>
IsDigit(c) == \E i \in 1..10 : DigitChars[i] = c
DigitValue(c) == (CHOOSE i \in 1..10 : DigitChars[i] = c) - 1
Digits2(n) == <<DigitChars[(n \div 10) + 1], DigitChars[(n % 10) + 1]>>
Digits4(n) == Digits2(n \div 100) \o Digits2(n % 100)

\* %b
MonthAbbr == << <<"J", "a", "n">>, <<"F", "e", "b">>, <<"M", "a", "r">>, <<"A", "p", "r">>,
                <<"M", "a", "y">>, <<"J", "u", "n">>, <<"J", "u", "l">>, <<"A", "u", "g">>,
                <<"S", "e", "p">>, <<"O", "c", "t">>, <<"N", "o", "v">>, <<"D", "e", "c">> >>

IsLeap(y) == (y % 4 = 0 /\ y % 100 # 0) \/ y % 400 = 0
DaysInMonth(y, m) ==
    IF m = 2 THEN (IF IsLeap(y) THEN 29 ELSE 28)
    ELSE IF m \in {4, 6, 9, 11} THEN 30 ELSE 31

NoDate == [ok |-> FALSE, y |-> 0, m |-> 0, d |-> 0]

Number2(s, i) == 10 * DigitValue(s[i]) + DigitValue(s[i + 1])

\* str.strptime(pl.Datetime, '%Y-%b-%d %I:%M:%S %p', strict=False).dt.date():
\* the date of a text of the form 2023-Jan-05 10:30:00 AM, null otherwise
ParseDate(s) ==
    IF /\ s # Null
       /\ Len(s) = 23
       /\ \A i \in {1, 2, 3, 4, 10, 11, 13, 14, 16, 17, 19, 20} : IsDigit(s[i])
       /\ s[5] = "-" /\ s[9] = "-" /\ s[12] = " " /\ s[15] = ":" /\ s[18] = ":" /\ s[21] = " "
       /\ \E m \in 1..12 : MonthAbbr[m] = SubSeq(s, 6, 8)
       /\ SubSeq(s, 22, 23) \in {<<"A", "M">>, <<"P", "M">>}
    THEN LET y == 100 * Number2(s, 1) + Number2(s, 3)
             m == CHOOSE x \in 1..12 : MonthAbbr[x] = SubSeq(s, 6, 8)
             d == Number2(s, 10)
         IN  IF /\ d \in 1..DaysInMonth(y, m)
                /\ Number2(s, 13) \in 1..12
                /\ Number2(s, 16) \in 0..59
                /\ Number2(s, 19) \in 0..59
             THEN [ok |-> TRUE, y |-> y, m |-> m, d |-> d]
             ELSE NoDate
    ELSE NoDate

\* dt.strftime('%Y-%m-%d')
Strftime(date) == Digits4(date.y) \o <<"-">> \o Digits2(date.m) \o <<"-">> \o Digits2(date.d)

CharCode(c) == IF c = "-" THEN 0 ELSE DigitValue(c) + 1

RECURSIVE TextLess(_, _)
\* the order of two strings in a sort
TextLess(s, t) ==
    IF t = <<>> THEN FALSE
    ELSE IF s = <<>> THEN TRUE
    ELSE IF Head(s) # Head(t) THEN CharCode(Head(s)) < CharCode(Head(t))
    ELSE TextLess(Tail(s), Tail(t))

RECURSIVE SortTexts(_)
\* unique().sort(): the distinct strings in ascending order
SortTexts(S) ==
    IF S = {} THEN <<>>
    ELSE LET least == CHOOSE x \in S : \A y \in S \ {x} : TextLess(x, y)
         IN  <<least>> \o SortTexts(S \ {least})

NoData == <<"n", "o", "_", "d", "a", "t", "a">>

\* the first and the last parseable value of the column, in column order
ExtractDateRangeOfFirstAndLast(has_column, values) ==
    LET parsed == SelectSeq(values, LAMBDA v : ParseDate(v).ok)
    IN  IF ~has_column \/ parsed = <<>> THEN NoData
        ELSE IF Len(parsed) = 1 THEN Strftime(ParseDate(parsed[1]))
        ELSE Strftime(ParseDate(parsed[1])) \o <<"~">> \o Strftime(ParseDate(parsed[Len(parsed)]))

\* extract_date_range(df, date_column, date_format)
ExtractDateRange(has_column, values) ==
    IF ~has_column THEN NoData
    ELSE LET dates == SortTexts({Strftime(ParseDate(v)) :
                                    v \in {x \in Range(values) : ParseDate(x).ok}})
         IN  IF Len(dates) = 0 THEN NoData
             ELSE IF Len(dates) = 1 THEN dates[1]
             ELSE dates[1] \o <<"~">> \o dates[Len(dates)]

\* a text in the format of the column
DateText(y, m, d, h, ap) ==
    Digits4(y) \o <<"-">> \o MonthAbbr[m] \o <<"-">> \o Digits2(d) \o <<" ">> \o Digits2(h)
        \o <<":", "3", "0", ":", "0", "0", " ">> \o ap

\* the values a date column can hold: dates, two times of one day, a day
\* that does not exist, a text that is no date, null
DateValues ==
    {DateText(2023, 1, 5, 10, <<"A", "M">>), DateText(2023, 1, 5, 11, <<"P", "M">>),
     DateText(2023, 4, 1, 9, <<"A", "M">>), DateText(2022, 12, 31, 12, <<"P", "M">>),
     DateText(2023, 2, 30, 9, <<"A", "M">>), DateText(2023, 1, 5, 13, <<"P", "M">>),
     <<"i", "n", "v", "a", "l", "i", "d">>, Null}

DateIdle == [phase |-> "date_input", has_column |-> FALSE, values |-> <<>>, result |-> <<>>]

DateInit ==
    /\ SysInit
    /\ \E has_column \in BOOLEAN :
          \E values \in SeqsUpTo(DateValues, MaxDateValues) :
              /\ ~has_column => values = <<>>
              /\ fn = [DateIdle EXCEPT !.has_column = has_column, !.values = values]

\* integrate/pipeline.py 120: date_range = extract_date_range(df, ...)
FnExtractDateRange ==
    /\ fn.phase = "date_input"
    /\ fn' = [fn EXCEPT !.phase = "extracted",
                        !.result = ExtractDateRange(fn.has_column, fn.values)]
    /\ UNCHANGED <<mainFolder, dbFile, stateFile, backupFolder, archiveFolder, clock,
                   runCount, pc, run>>

DateNext == FnExtractDateRange

DateSpec == DateInit /\ [][DateNext]_vars

(***************************************************************************)
(* Properties.                                                             *)
(***************************************************************************)
DbContent(db) == [exists |-> db.exists, frame |-> db.frame]

AppliedAt(sf) == AppliedIncrementals(LoadState(sf))

Pending(folder, sf) == Range(Unapplied(folder, AppliedAt(sf), MaxIncrementalsPerRun))

IncrementalsIn(folder) == {n \in Present(folder) : IsIncremental(n)}

\* C1: after every failed run over an existing baseline (incremental merge
\* or rebuild, whatever the step that raised) the baseline file content
\* equals its content at the start of that run.
C1_BaselineRestoredAfterFailure ==
    (pc = "failed" /\ run.start.db.exists) => DbContent(dbFile) = DbContent(run.start.db)

BeforeWriteSteps == {"inc_load", "inc_track", "inc_write", "reb_read", "reb_write"}

\* C2: a run that fails after create_backup and before the baseline file is
\* written (batch load error, missing key column, change-tracking error,
\* the write itself refused) leaves the baseline content and the state file
\* as they were before the run.
C2_FailureBeforeWriteLeavesBaselineAndState ==
    (pc = "failed" /\ run.at \in BeforeWriteSteps) =>
        /\ DbContent(dbFile) = DbContent(run.start.db)
        /\ stateFile = run.start.state

C2_Witness ==
    /\ pc = "failed"
    /\ run.at = "inc_track"
    /\ run.backup # 0
    /\ \E b \in backupFolder : b.id = run.backup
    /\ run.start.state.exists

\* C3: after a failed run the set of pending incremental batches (present in
\* the discovery directory and not in the persisted applied set) is the one
\* the failed run started with.
C3_SamePendingAfterFailure ==
    pc = "failed" =>
        /\ Pending(mainFolder, stateFile) = Pending(run.start.folder, run.start.state)
        /\ AppliedAt(stateFile) = AppliedAt(run.start.state)

\* C4: a batch file whose identifier is in the persisted applied_incrementals
\* at the start of a run is never read by that run, whatever mode it chooses.
C4_AppliedBatchNeverRead ==
    run.loaded \cap AppliedAt(run.start.state) = {}

\* C5: after a successful incremental run every identifier newly added to
\* applied_incrementals names a batch that was read and merged, and a batch
\* file of the run that could not be read is neither applied nor archived.
C5_OnlyReadBatchesApplied ==
    (pc = "done" /\ run.mode = "incremental") =>
        /\ (AppliedAt(stateFile) \ AppliedAt(run.start.state)) \subseteq run.loaded
        /\ \A n \in Range(run.files) \ run.loaded :
              /\ n \notin AppliedAt(stateFile)
              /\ mainFolder[n].present

\* C6: a completed run that discovered a full-refresh batch file did not take
\* the incremental path and left every incremental batch untouched: not
\* read, not added to the applied set, not archived.
C6_FullRefreshHasPriority ==
    (pc = "done" /\ GetWeeklyFullFiles(run.start.folder) # <<>>) =>
        /\ run.mode # "incremental"
        /\ AppliedAt(stateFile) = AppliedAt(run.start.state)
        /\ \A n \in IncrementalsIn(run.start.folder) :
              /\ n \notin run.loaded
              /\ mainFolder[n] = run.start.folder[n]

\* C7: a run (not a forced rebuild) that discovers no full-refresh batch and
\* no incremental batch outside the applied set is a no-op: baseline file,
\* state file, backup directory and batch directory stay as they were.
C7_UpToDateRunIsNoOp ==
    (/\ pc # "idle"
     /\ ~run.force
     /\ GetWeeklyFullFiles(run.start.folder) = <<>>
     /\ Pending(run.start.folder, run.start.state) = {}) =>
        /\ run.mode = "uptodate"
        /\ dbFile = run.start.db
        /\ stateFile = run.start.state
        /\ backupFolder = run.start.backups
        /\ mainFolder = run.start.folder

FnIncomingKeys == {MergeKey(fn.incoming[i]) : i \in DOMAIN fn.incoming}

\* C8: identify_changes partitions the incoming keys: update_keys and
\* new_keys are disjoint, their union is the set of incoming keys,
\* update_keys are the incoming keys present in the baseline and new_keys the
\* incoming keys absent from it.
C8_KeyPartition ==
    fn.phase \in {"identified", "checked", "merged"} =>
        /\ fn.update_keys \cup fn.new_keys = FnIncomingKeys
        /\ fn.update_keys \cap fn.new_keys = {}
        /\ fn.update_keys = {mk \in FnIncomingKeys : mk \in MergeKeysOfBag(fn.baseline)}
        /\ fn.new_keys = {mk \in FnIncomingKeys : mk \notin MergeKeysOfBag(fn.baseline)}

C8_Witness ==
    /\ fn.phase = "identified"
    /\ fn.update_keys # {}
    /\ fn.new_keys # {}

RowsWithKey(b, k) == Count(b, LAMBDA r : UniqueKeyOf(r) = k)

FnIncomingWithKey(k) == {i \in DOMAIN fn.incoming : UniqueKeyOf(fn.incoming[i]) = k}

\* C9: after the merge every composite key that occurs in the incoming set
\* has exactly one row in the merged baseline, however many rows carried it
\* in the baseline and in the incoming set.
C9_OneRowPerIncomingKey ==
    fn.phase = "merged" =>
        \A i \in DOMAIN fn.incoming :
            RowsWithKey(fn.merged, UniqueKeyOf(fn.incoming[i])) = 1

C9_Witness ==
    /\ fn.phase = "merged"
    /\ \E k \in CleanKeys :
          /\ RowsWithKey(fn.baseline, k) >= 2
          /\ Cardinality(FnIncomingWithKey(k)) >= 2

\* C10: deduplicate_data keeps for each key the row with the latest Item
\* Update Date, and among several rows of the key with that date the one
\* that comes last in input order.
C10_LatestThenLastInInputOrder ==
    fn.phase = "deduped" =>
        \A i \in DOMAIN fn.incoming :
            LET k == UniqueKeyOf(fn.incoming[i])
                top == SetMax({fn.incoming[j].d : j \in FnIncomingWithKey(k)})
                last == SetMax({j \in FnIncomingWithKey(k) : fn.incoming[j].d = top})
            IN  /\ RowsWithKey(fn.deduped, k) = 1
                /\ fn.incoming[last] \in BagToSet(fn.deduped)

FnDedupedKeys == MergeKeysOfBag(fn.deduped)

\* C11: merge_dataframes replaces whole records: the rows of the merged set
\* whose merge key is a key of the deduplicated incoming set are exactly the
\* incoming rows, field for field (a null field stays null, it is not taken
\* from the baseline row), and the baseline rows of every other key are all
\* there, unchanged, as many times as before.
C11_WholeRecordReplacement ==
    fn.phase = "merged" =>
        /\ FilterBag(fn.merged, LAMBDA r : MergeKey(r) \in FnDedupedKeys) = fn.deduped
        /\ FilterBag(fn.merged, LAMBDA r : MergeKey(r) \notin FnDedupedKeys)
               = FilterBag(fn.baseline, LAMBDA r : MergeKey(r) \notin FnDedupedKeys)

C11_Witness ==
    /\ fn.phase = "merged"
    /\ \E r \in BagToSet(fn.deduped), p \in BagToSet(fn.baseline), q \in BagToSet(fn.baseline) :
          /\ MergeKey(p) = MergeKey(r)
          /\ r.d = NullDate /\ p.d # NullDate
          /\ MergeKey(q) \notin FnDedupedKeys

\* C12: an incremental run whose incoming record set is empty after
\* filtering does not raise in change tracking, and when it completes the
\* baseline has the rows it had before the run.
C12_EmptyIncomingRunCompletes ==
    /\ (pc = "failed" /\ run.at = "inc_track") => run.incoming # <<>>
    /\ (pc = "done" /\ run.mode = "incremental" /\ run.incoming = <<>>) =>
           dbFile.frame.rows = run.start.db.frame.rows

\* C13: merging the same incremental batch a second time into the baseline
\* it was merged into gives the same multiset of rows as merging it once.
C13_RetryGivesSameBaseline ==
    fn.phase = "retried" => fn.retried = fn.merged

Min(a, b) == IF a < b THEN a ELSE b

\* the pending batches at the start of the run, in ascending identifier order
PendingAtStart == Sorted(Pending(run.start.folder, run.start.state))

\* C14: a successful incremental run with n pending batches and cap m was
\* given exactly the first min(n, m) pending batches in ascending identifier
\* order, has added exactly those identifiers to the applied set and leaves
\* exactly the other ones pending: fewer than before, none when n <= m.
C14_CappedRunAppliesFirstPending ==
    (pc = "done" /\ run.mode = "incremental") =>
        LET n == Len(PendingAtStart)
            m == run.max_incrementals
        IN  /\ run.files = SubSeq(PendingAtStart, 1, Min(n, m))
            /\ AppliedAt(stateFile) = AppliedAt(run.start.state) \cup Range(run.files)
            /\ Pending(mainFolder, stateFile) = Range(PendingAtStart) \ Range(run.files)
            /\ Cardinality(Pending(mainFolder, stateFile)) < n
            /\ n <= m => Pending(mainFolder, stateFile) = {}

C14_Witness ==
    /\ pc = "done"
    /\ run.mode = "incremental"
    /\ Len(PendingAtStart) = 2
    /\ run.max_incrementals = 1
    /\ run.files = <<"incremental_1.xlsx">>
    /\ Pending(mainFolder, stateFile) = {"incremental_2.xlsx"}

\* the '|'-joined string of a Composite Key
KeyString(k) == MergeKey(MkRow(k, NullDate, <<"x">>))

\* the Composite Keys the baseline holds more than once and that are updated
FnDuplicatesUpdated ==
    {k \in {UniqueKeyOf(r) : r \in BagToSet(fn.baseline)} :
        RowsWithKey(fn.baseline, k) >= 2 /\ KeyString(k) \in fn.update_keys}

RECURSIVE ExtraRows(_)
\* sum over the keys of S of (number of baseline rows with the key - 1)
ExtraRows(S) ==
    IF S = {} THEN 0
    ELSE LET k == CHOOSE x \in S : TRUE
         IN  (RowsWithKey(fn.baseline, k) - 1) + ExtraRows(S \ {k})

\* C15: when the baseline holds duplicate Composite Keys of which at least
\* one is in update_keys, check_duplicate_keys warns, naming those keys, with
\* extra rows removed = the sum over those keys of (baseline rows with the
\* key - 1), and the merge leaves one row for each such key; when the
\* baseline holds no duplicate Composite Key that is in update_keys there is
\* no warning about rows to be removed.
C15_DuplicateKeyWarning ==
    fn.phase \in {"checked", "merged"} =>
        IF FnDuplicatesUpdated # {}
        THEN /\ fn.warning.warned
             /\ fn.warning.keys = {KeyString(k) : k \in FnDuplicatesUpdated}
             /\ fn.warning.extra_rows_removed = ExtraRows(FnDuplicatesUpdated)
             /\ fn.phase = "merged" =>
                    \A k \in FnDuplicatesUpdated : RowsWithKey(fn.merged, k) = 1
        ELSE ~fn.warning.warned

\* the rows one batch file hands to track_row_changes
TrackedRows(n) == Range(FileRows(fn.current, n))

\* the rows of file n that carry Composite Key k
TrackedRowsWithKey(n, k) == Len(SelectSeq(FileRows(fn.current, n), LAMBDA r : UniqueKeyOf(r) = k))

\* C16: for every incoming row whose key is in the baseline and every
\* non-key column both frames have, track_row_changes emits the Updated
\* record (key, column, previous value, current value) if and only if the
\* string forms of the two values differ, and exactly once when the key is
\* unique on both sides.
C16_UpdatedRecordIffDiffers ==
    fn.phase = "tracked" =>
        \A n \in DOMAIN fn.results : \A c \in TrackedRows(n) : \A p \in BagToSet(fn.previous) :
            UniqueKeyOf(p) = UniqueKeyOf(c) =>
                \A col \in (Columns(fn.curHasExtra) \cap Columns(fn.prevHasExtra)) \ Range(KeyColumns) :
                    LET rec == [key |-> UniqueKeyOf(c), column |-> col,
                                previous |-> Cell(p, col), current |-> Cell(c, col),
                                date |-> c.d, type |-> "Updated"]
                        emitted == CopiesIn(rec, fn.results[n].changes)
                        differs == StrForm(Cell(c, col)) # StrForm(Cell(p, col))
                        unique == /\ RowsWithKey(fn.previous, UniqueKeyOf(c)) = 1
                                  /\ TrackedRowsWithKey(n, UniqueKeyOf(c)) = 1
                    IN  /\ differs <=> emitted > 0
                        /\ (unique /\ differs) => emitted = 1

\* the New records of a frame of changes for key k and column col
NewRecordsFor(changes, k, col) ==
    Count(changes, LAMBDA r : r.type = "New" /\ r.key = k /\ r.column = col /\ r.previous = Null)

\* C17: for every incoming row whose key is not in the baseline,
\* track_row_changes emits one New record with previous value null for
\* every non-null field of the row and none for a null field.
C17_NewRecordPerNonNullField ==
    fn.phase = "tracked" =>
        \A n \in DOMAIN fn.results : \A c \in TrackedRows(n) :
            (/\ \A p \in BagToSet(fn.previous) : UniqueKeyOf(p) # UniqueKeyOf(c)
             /\ TrackedRowsWithKey(n, UniqueKeyOf(c)) = 1) =>
                \A col \in Columns(fn.curHasExtra) \cup {DateColumn} :
                    LET nonNull == IF col = DateColumn THEN c.d # NullDate
                                   ELSE Cell(c, col) # Null
                        emitted == NewRecordsFor(fn.results[n].changes, UniqueKeyOf(c), col)
                    IN  emitted = IF nonNull THEN 1 ELSE 0

\* the number of non-null fields of a row
NonNullFields(c, hasExtra) ==
    Cardinality({col \in Columns(hasExtra) : Cell(c, col) # Null})
        + (IF c.d # NullDate THEN 1 ELSE 0)

\* C18: in the aggregated change results of a run, New plus Updated records
\* are all the records, and the New records of one key are no more than the
\* non-null fields of that key's incoming row.
C18_ChangeCountConservation ==
    (fn.phase = "tracked" /\ ~fn.raised) =>
        /\ Count(fn.changes, LAMBDA r : r.type = "New")
               + Count(fn.changes, LAMBDA r : r.type = "Updated") = fn.total_changes
        /\ \A k \in TrackKeys :
               LET rows == {t.row : t \in {x \in Range(fn.current) : UniqueKeyOf(x.row) = k}}
                   news == Count(fn.changes, LAMBDA r : r.type = "New" /\ r.key = k)
               IN  IF rows = {} THEN news = 0
                   ELSE \E c \in rows : news <= NonNullFields(c, fn.curHasExtra)
\* file n of the run yields change records on the columns other than the
\* optional one
FileHasChanges(n) ==
    TrackRowChanges(FileRows(run.incoming, n), run.incHasKeys, run.incHasDate, FALSE,
                    run.current_df.rows, FALSE).has_changes

\* C19: an incremental run whose batches differ in the optional column
\* Vendor Catalogue from each other or from the baseline does not fail for it (a run
\* that fails at change tracking has a file without changes), and when it
\* completes the merged baseline has the column if the baseline or a batch
\* had it, with null in the rows that were not replaced when the baseline
\* lacked it.
C19_DifferingColumnsAccepted ==
    /\ (pc = "failed" /\ run.at = "inc_track") => \E n \in run.loaded : ~FileHasChanges(n)
    /\ (pc = "done" /\ run.mode = "incremental") =>
           /\ dbFile.frame.hasExtra = (run.start.db.frame.hasExtra \/ run.incHasExtra)
           /\ ~run.start.db.frame.hasExtra =>
                  \A r \in BagToSet(dbFile.frame.rows) :
                      r \in BagToSet(run.start.db.frame.rows) => r.e = Null
\* C20: validate_parquet_data never raises on a post-merge baseline (no
\* incremental run fails at the validation step), has_issues is true exactly
\* when one of the three checks reports an issue, and the run goes on after
\* validation whatever it found: a completed run has persisted the applied
\* files in the Sync State.
C20_ValidatorIsAdvisory ==
    /\ pc = "failed" => run.at # "inc_validate"
    /\ pc \in {"inc_archive", "inc_report", "inc_save", "inc_cleanup"} =>
           LET columns == FrameColumns(run.updated_df)
               rows == run.updated_df.rows
           IN  run.has_issues <=>
                   \/ /\ {"Contract No", "Vendor Code"} \subseteq columns
                      /\ ContractsWithMultipleVendors(rows) # {}
                   \/ /\ "Vendor Catalogue" \in columns
                      /\ BlankVendorCatalogueCount(rows) > 0
                   \/ /\ {"PMM Item Number", "Vendor Code", "Vendor Catalogue", "Corp Acct"}
                             \subseteq columns
                      /\ InconsistentVendorCatalogue(rows) # {}
    /\ (pc = "done" /\ run.mode = "incremental") =>
           Range(run.files) \subseteq AppliedAt(stateFile)
\* the (item number, vendor code, account prefix) of a row
Triple(r) == <<ValCell(r, "PMM Item Number"), ValCell(r, "Vendor Code"),
               Slice2(ValCell(r, "Corp Acct"))>>

\* the rows of a triple that have a non-blank vendor catalogue
NonBlankRows(t) ==
    {r \in BagToSet(fn.rows) :
        /\ Triple(r) = t
        /\ ValCell(r, "Vendor Catalogue") # Null
        /\ StripChars(ValCell(r, "Vendor Catalogue")) # <<>>}

CatalogueValues(t) == {ValCell(r, "Vendor Catalogue") : r \in NonBlankRows(t)}

ConflictingTriples ==
    {t \in {Triple(r) : r \in BagToSet(fn.rows)} : Cardinality(CatalogueValues(t)) >= 2}

\* C21: on a frame with a vendor catalogue column the consistency check
\* reports a triple if and only if its rows with a non-blank vendor
\* catalogue carry two or more distinct catalogue values, with all those
\* values, and the reported count is the number of such triples.
C21_CatalogueConsistencyReport ==
    (fn.phase = "validated" /\ "Vendor Catalogue" \in fn.columns) =>
        LET items == fn.validation_results.inconsistent_vendor_catalogue_items
        IN  /\ {<<i.pmm_item, i.vendor_code, i.corp_acct>> : i \in items} = ConflictingTriples
            /\ \A i \in items :
                   i.catalogue_values = CatalogueValues(<<i.pmm_item, i.vendor_code, i.corp_acct>>)
            /\ fn.validation_results.inconsistent_vendor_catalogue_count
                   = Cardinality(ConflictingTriples)
\* the steps of a rebuild run after create_backup has returned
AfterRebOpen == {"reb_read", "reb_write", "reb_validate", "reb_track", "reb_report",
                 "reb_save", "reb_cleanup"}

\* the steps of a rebuild run after the baseline file was overwritten
AfterRebWrite == {"reb_validate", "reb_track", "reb_report", "reb_save", "reb_cleanup"}

\* C22: the snapshot create_backup returns for an existing baseline holds the
\* content B of the baseline, and restoring it after the baseline was
\* overwritten leaves the baseline file with content B; without a baseline
\* file create_backup returns null and creates no snapshot.
C22_BackupRoundTrip ==
    /\ (run.mode = "rebuild" /\ pc \in AfterRebOpen /\ run.start.db.exists) =>
           /\ run.backup # 0
           /\ \E b \in backupFolder : b.id = run.backup /\ b.frame = run.start.db.frame
    /\ (run.mode = "rebuild" /\ pc = "failed" /\ run.at \in AfterRebOpen /\ run.backup # 0) =>
           /\ dbFile.exists
           /\ dbFile.frame = run.start.db.frame
    /\ (run.mode = "rebuild" /\ pc \in AfterRebOpen /\ ~run.start.db.exists) =>
           /\ run.backup = 0
           /\ backupFolder = run.start.backups

C22_Witness ==
    /\ run.mode = "rebuild"
    /\ pc = "failed"
    /\ run.at \in AfterRebWrite
    /\ run.backup # 0
    /\ run.updated_df # run.start.db.frame
    /\ dbFile.frame = run.start.db.frame
\* C23: every step of a run that changes the content of an existing baseline
\* file is taken when create_backup has returned a snapshot that holds the
\* pre-run content of the baseline.
C23_BackupBeforeWrite ==
    [][(dbFile.exists /\ DbContent(dbFile') # DbContent(dbFile)) =>
          /\ run.backup # 0
          /\ \E b \in backupFolder : b.id = run.backup /\ b.frame = run.start.db.frame]_vars

C23_Witness ==
    /\ pc \in {"inc_validate", "reb_validate"}
    /\ run.start.db.exists
    /\ dbFile.frame # run.start.db.frame
    /\ \E b \in backupFolder : b.id = run.backup /\ b.frame = run.start.db.frame
\* C24: cleanup_old_backups does not delete a snapshot taken within the
\* retention window: the snapshot created by a run is still in the backup
\* folder when that run has completed, with the content it was created with.
C24_CleanupKeepsRecentSnapshots ==
    (pc = "done" /\ run.mode \in {"incremental", "rebuild"} /\ run.backup # 0) =>
        \E b \in backupFolder : b.id = run.backup /\ b.frame = run.start.db.frame
\* C25: at every point the state file, when it exists, holds a complete
\* document: the previous state or the new one.
C25_SaveStateIsAtomic == stateFile.exists => ~stateFile.partial
\* the incoming rows that have the key of baseline row p
IncomingOfKey(p) == {r \in Range(fn.incoming) : MergeKey(r) = MergeKey(p)}

\* C26: an incoming row whose key is in the baseline with a date that is not
\* strictly newer than the dated baseline row does not replace it: a dated
\* baseline row all of whose incoming rows are older or of equal date is
\* still in the merged baseline.
C26_StaleRowsDoNotReplace ==
    (fn.phase = "merged" /\ fn.hasDate) =>
        \A p \in BagToSet(fn.baseline) :
            (p.d # NullDate /\ \A r \in IncomingOfKey(p) : r.d <= p.d) =>
                CopiesIn(p, fn.merged) >= CopiesIn(p, fn.baseline)
\* the dates (year, month, day) of the parseable values of the column
ParsedDates == {ParseDate(v) : v \in {x \in Range(fn.values) : ParseDate(x).ok}}

\* date a is not after date b
NotAfter(a, b) ==
    \/ a.y < b.y
    \/ a.y = b.y /\ a.m < b.m
    \/ a.y = b.y /\ a.m = b.m /\ a.d <= b.d

\* C27: extract_date_range returns 'no_data' when the column is missing, the
\* frame is empty or no value parses; otherwise the single date of the
\* parseable values as YYYY-MM-DD, or their earliest and latest dates joined
\* by '~' when they differ.
C27_ExtractDateRange ==
    fn.phase = "extracted" =>
        IF ~fn.has_column \/ ParsedDates = {}
        THEN fn.result = NoData
        ELSE LET min == CHOOSE a \in ParsedDates : \A b \in ParsedDates : NotAfter(a, b)
                 max == CHOOSE a \in ParsedDates : \A b \in ParsedDates : NotAfter(b, a)
             IN  IF min = max
                 THEN fn.result = <<"2", "0">> \o Digits2(min.y % 100) \o <<"-">>
                                      \o Digits2(min.m) \o <<"-">> \o Digits2(min.d)
                 ELSE fn.result = <<"2", "0">> \o Digits2(min.y % 100) \o <<"-">>
                                      \o Digits2(min.m) \o <<"-">> \o Digits2(min.d) \o <<"~">>
                                      \o <<"2", "0">> \o Digits2(max.y % 100) \o <<"-">>
                                      \o Digits2(max.m) \o <<"-">> \o Digits2(max.d)

C27_Witness ==
    /\ fn.phase = "extracted"
    /\ fn.values = <<DateText(2023, 4, 1, 9, <<"A", "M">>), <<"i", "n", "v", "a", "l", "i", "d">>,
                     DateText(2023, 1, 5, 10, <<"A", "M">>)>>
    /\ fn.result = <<"2", "0", "2", "3", "-", "0", "1", "-", "0", "5", "~",
                     "2", "0", "2", "3", "-", "0", "4", "-", "0", "1">>
\* every batch file of the run was read, has rows, has the columns of the
\* baseline, and each of its rows is a row of the baseline
UnchangedBatches ==
    /\ run.loaded = Range(run.files)
    /\ run.incHasKeys
    /\ run.incHasDate = run.current_df.hasDate
    /\ run.incHasExtra = run.current_df.hasExtra
    /\ \A n \in run.loaded : FileRows(run.incoming, n) # <<>>
    /\ \A t \in Range(run.incoming) : CopiesIn(t.row, run.current_df.rows) > 0

\* C28: an incremental run over batch files that produce no change record
\* (every row is already in the baseline with identical field values) does
\* not raise in change tracking, and when it completes its files are in the
\* applied set and no longer pending.
C28_UnchangedBatchIsApplied ==
    /\ (pc = "failed" /\ run.mode = "incremental" /\ run.at = "inc_track") => ~UnchangedBatches
    /\ (pc = "done" /\ run.mode = "incremental" /\ UnchangedBatches) =>
           /\ Range(run.files) \subseteq AppliedAt(stateFile)
           /\ Range(run.files) \cap Pending(mainFolder, stateFile) = {}
\* the five key components of a row, trimmed, null as the empty string
KeyComponents(r) == [i \in 1..5 |-> StripChars(r.k[i])]

\* C29: two records have the same merge-key string if and only if their five
\* trimmed key components are pairwise equal, and the merge removes no
\* baseline row whose five-field key differs from the key of every incoming
\* row.
C29_MergeKeyIsInjective ==
    fn.phase = "merged" =>
        /\ \A p \in BagToSet(fn.baseline) :
               (\A r \in Range(fn.incoming) : KeyComponents(r) # KeyComponents(p)) =>
                   CopiesIn(p, fn.merged) >= CopiesIn(p, fn.baseline)
        /\ \A p, q \in BagToSet(fn.baseline) \cup Range(fn.incoming) :
               MergeKey(p) = MergeKey(q) <=> KeyComponents(p) = KeyComponents(q)
\* C30: a successful run that found no full-refresh batch file removes no
\* identifier from the persisted applied_incrementals, so an applied batch
\* file still in the discovery directory is not pending after the run.
C30_AppliedSetOnlyGrows ==
    (pc = "done" /\ GetWeeklyFullFiles(run.start.folder) = <<>>) =>
        /\ AppliedAt(run.start.state) \subseteq AppliedAt(stateFile)
        /\ AppliedAt(run.start.state) \cap Pending(mainFolder, stateFile) = {}
====
